---------------------------- MODULE Spec2Model ----------------------------
(***************************************************************************)
(* A model of src/singleflight/singleflight.go, which holds two            *)
(* independent components:                                                 *)
(*   - package singleflight: Group.Do, duplicate call suppression;         *)
(*   - package lru: Cache, an LRU cache over container/list.               *)
(* The Group is modelled as a set of goroutines stepping through Do, the   *)
(* Cache as a single-threaded object on which operations are applied.      *)
(***************************************************************************)
EXTENDS Integers, Sequences, FiniteSets, TLC

(***************************************************************************)
(* Bounds.                                                                 *)
(***************************************************************************)
NumProcs == 2      \* goroutines calling Group.Do
NumKeys == 2       \* distinct keys passed to Do
NumCacheKeys == 3  \* distinct keys given to the Cache
MaxCap == 2        \* largest MaxEntries a Cache is built with

Procs == 1..NumProcs

\* The goroutine whose calls of Do are observed.  All goroutines run the
\* same code of Do, so what holds of one holds of each.
obs == 1
Keys == 1..NumKeys

\* Addresses of call records.  A record is reachable from g.m or from a
\* goroutine's c; new(call) returns an address no reachable record has.
CallIds == 1..(2 * NumProcs + NumKeys)

\* The (value, error) pairs a wrapped function may return: a success and a
\* failure.  "nil" is Go's nil for both positions.
FnResults == { <<"v1", "nil">>, <<"nil", "e1">> }

\* The zero value of call.val and call.err.
ZeroResult == <<"nil", "nil">>

NoCall == 0        \* key absent from g.m / local c not assigned
NoProc == 0        \* g.mu unlocked
NoRet == <<>>      \* Do has not returned
NotYet == <<>>     \* fn has not returned

VARIABLES
    mu,       \* g.mu: NoProc, or the goroutine holding the mutex
    mNil,     \* g.m == nil
    m,        \* g.m: key -> address of a call record (NoCall: no entry)
    calls,    \* the heap of call records, by address
    pc,       \* each goroutine's position in Do
    key,      \* each goroutine's argument key
    c,        \* each goroutine's local c
    ret,      \* what the last Do of the observed goroutine returned
    hist      \* what held when the observed goroutine entered Do

varsG == <<mu, mNil, m, calls, pc, key, c, ret, hist>>

\* The fields of an lru.Cache, and what its caller has seen of it.
VARIABLES
    MaxEntries,  \* c.MaxEntries
    OnEvicted,   \* c.OnEvicted != nil
    cacheNil,    \* c.cache == nil (then c.ll is nil too)
    ll,          \* c.ll: the element addresses, front first
    entry,       \* the *entry each element's Value points to
    cache,       \* c.cache: key -> element address (NilElem: no entry)
    evicted,     \* the calls of c.OnEvicted made by the last method call
    last,        \* the last method call: its name, arguments and results
    lastAccess,  \* the keys present, by latest Add or successful Get, latest first
    lastAdded    \* for each key present, the value its latest Add gave

varsC == <<MaxEntries, OnEvicted, cacheNil, ll, entry, cache, evicted, last,
           lastAccess, lastAdded>>

vars == <<varsG, varsC>>

-----------------------------------------------------------------------------
(***************************************************************************)
(* type call struct { wg; val; err }.  The other fields observe the        *)
(* record's history and are read by no step of Do:                         *)
(*   key, owner  the key it was registered under, and by which goroutine;  *)
(*   execs       how many times fn was invoked for it;                     *)
(*   produced    what fn returned;                                         *)
(*   removed     delete(g.m, key) has run for it.                          *)
(***************************************************************************)
NewCall(k, p) ==
    [wg |-> 0, val |-> ZeroResult[1], err |-> ZeroResult[2],
     key |-> k, owner |-> p, produced |-> NotYet, execs |-> 0,
     removed |-> FALSE]

\* An address holding no reachable record.
FreeRec == NewCall(0, NoProc)

\* An Add of two for the one Done to come.
WgAddTwo(rec) == [rec EXCEPT !.wg = @ + 2]

\* c.wg.Add(1)
WgAdd(rec) == [rec EXCEPT !.wg = @ + 1]

\* A Done that does not reach the counter.
WgDoneLost(rec) == rec

\* c.wg.Done()
WgDone(rec) == [rec EXCEPT !.wg = @ - 1]

\* c.wg.Wait() returns
WgReleased(rec) == rec.wg = 0

\* A store that drops the error.
StoreResultNoErr(rec, r) == [rec EXCEPT !.val = r[1]]

\* c.val, c.err = <result of fn>
StoreResult(rec, r) == [rec EXCEPT !.val = r[1], !.err = r[2]]

\* return c.val, c.err
ReadResult(rec) == <<rec.val, rec.err>>

\* A registration that never reaches the map.
MapSetLost(mp, k, id) == mp

\* g.m[key] = c
MapSet(mp, k, id) == [mp EXCEPT ![k] = id]

\* A delete that removes nothing.
MapDeleteNone(mp, k) == mp

\* A delete of another key.
MapDeleteWrongKey(mp, k) == [mp EXCEPT ![(k % NumKeys) + 1] = NoCall]

\* delete(g.m, key)
MapDelete(mp, k) == [mp EXCEPT ![k] = NoCall]

\* A goroutine is inside Do.
Active(p) == pc[p] # "idle"

\* The addresses reachable from map mp or locals cc.
Reachable(mp, cc) ==
    {mp[k] : k \in Keys} \cup {cc[p] : p \in Procs}

\* new(call) by goroutine p: an address that holds no reachable record.
\* Addresses are not observable, so one is fixed: the goroutine's own if it
\* is free, else the lowest free one beyond those.
NewAddr(p) ==
    IF p \notin Reachable(m, c) THEN p
    ELSE CHOOSE id \in CallIds \ Procs :
            /\ id \notin Reachable(m, c)
            /\ \A o \in (NumProcs + 1)..(id - 1) : o \in Reachable(m, c)

\* The heap once the records no longer reachable are collected.
Sweep(cs, mp, cc) ==
    [id \in CallIds |-> IF id \in Reachable(mp, cc) THEN cs[id] ELSE FreeRec]

\* The reachable records of key k.
CallsOf(k) == {id \in CallIds : calls[id].key = k}

(***************************************************************************)
(* What the observed goroutine's call of Do(k, fn) has met, kept until the *)
(* call invokes fn or returns:                                             *)
(*   fresh    when it entered, g.m had no record for k and no other        *)
(*            goroutine was inside Do(k);                                  *)
(*   mateRan  since it entered, and before it locked g.mu, another caller  *)
(*            of Do(k) has registered a record;                            *)
(*   fnDone   the records of k whose fn had returned when it entered;      *)
(*   removed  the records of k that had been deleted from g.m by then;     *)
(*   alone    no other goroutine has been inside Do(k) during the call;    *)
(*   second   the goroutine's previous Do was for k too;                   *)
(*   during   (kept until the call returns) it registered its record       *)
(*            while fn was running for another key;                        *)
(*   mateRet  (kept until the call returns) the pairs Do has returned to   *)
(*            other goroutines from the record the call holds;             *)
(*   prevKey  (between calls) the key of the call that has returned.       *)
(***************************************************************************)
NoHist == [fresh |-> FALSE, mateRan |-> FALSE, fnDone |-> {}, removed |-> {},
           alone |-> FALSE, second |-> FALSE, during |-> FALSE, mateRet |-> {},
           prevKey |-> 0]

\* The observations once the records outside live have been collected.
Prune(h, live) ==
    [h EXCEPT !.fnDone = @ \cap live, !.removed = @ \cap live]

-----------------------------------------------------------------------------
InitGroup ==
    /\ mu = NoProc
    /\ mNil = TRUE
    /\ m = [k \in Keys |-> NoCall]
    /\ calls = [id \in CallIds |-> FreeRec]
    /\ pc = [p \in Procs |-> "idle"]
    /\ key = [p \in Procs |-> 1]
    /\ c = [p \in Procs |-> NoCall]
    /\ ret = NoRet
    /\ hist = NoHist

\* A goroutine calls g.Do(k, fn).
DoBegin(p, k) ==
    /\ pc[p] = "idle"
    /\ pc' = [pc EXCEPT ![p] = "start"]
    /\ key' = [key EXCEPT ![p] = k]
    /\ ret' = IF p = obs THEN NoRet ELSE ret
    /\ hist' =
         LET others == \E o \in Procs \ {p} : Active(o) /\ key[o] = k
         IN  IF p = obs
             THEN [NoHist EXCEPT
                     !.fresh = m[k] = NoCall /\ ~others,
                     !.fnDone = {id \in CallsOf(k) : calls[id].produced # NotYet},
                     !.removed = {id \in CallsOf(k) : calls[id].removed},
                     !.alone = ~others,
                     !.second = hist.prevKey = k]
             ELSE [hist EXCEPT !.alone = @ /\ ~(Active(obs) /\ key[obs] = k)]
    /\ UNCHANGED <<mu, mNil, m, calls, c>>
    /\ UNCHANGED varsC

\* g.mu.Lock(); if g.m == nil { g.m = make(...) }: goroutine p, about to
\* look its key up, acquires g.mu.  Each critical section of Do is one step,
\* taken when g.mu is free; mu' tells whether the step has unlocked it.
Lock(p) ==
    /\ mu = NoProc
    /\ mNil' = FALSE

\* A duplicate caller that goes on to invoke fn instead of waiting.
DoJoinAlsoRuns(p) ==
    /\ pc[p] = "start"
    /\ Lock(p)
    /\ m[key[p]] # NoCall
    /\ c' = [c EXCEPT ![p] = m[key[p]]]
    /\ mu' = NoProc
    /\ pc' = [pc EXCEPT ![p] = "call"]
    /\ UNCHANGED <<m, calls, key, ret, hist>>
    /\ UNCHANGED varsC

\* Do returns the pair r to goroutine p: its c goes out of scope, and a
\* record that nothing refers to any more is collected.
Return(p, r) ==
    /\ pc' = [pc EXCEPT ![p] = "idle"]
    /\ key' = [key EXCEPT ![p] = 1]
    /\ c' = [c EXCEPT ![p] = NoCall]
    /\ calls' = Sweep(calls, m, c')
    /\ ret' = IF p = obs THEN r ELSE ret
    /\ hist' = IF p = obs THEN [NoHist EXCEPT !.prevKey = key[p]]
               ELSE [Prune(hist, Reachable(m, c')) EXCEPT !.mateRet =
                       IF c[p] = c[obs] THEN @ \cup {r} ELSE @]

\* g.mu.Lock(); ...; if c, ok := g.m[key]; ok { g.mu.Unlock(); ...
DoJoin(p) ==
    /\ pc[p] = "start"
    /\ Lock(p)
    /\ m[key[p]] # NoCall
    /\ c' = [c EXCEPT ![p] = m[key[p]]]
    /\ mu' = NoProc
    /\ pc' = [pc EXCEPT ![p] = "wait"]
    /\ UNCHANGED <<m, calls, key, ret, hist>>
    /\ UNCHANGED varsC

\* ... c.wg.Wait(); return c.val, c.err }
DoWaitReturn(p) ==
    /\ pc[p] = "wait"
    /\ WgReleased(calls[c[p]])
    /\ Return(p, ReadResult(calls[c[p]]))
    /\ UNCHANGED <<mu, mNil, m>>
    /\ UNCHANGED varsC

\* A registration that keeps g.mu locked while fn runs.
DoRegisterKeepLock(p) ==
    /\ pc[p] = "start"
    /\ Lock(p)
    /\ m[key[p]] = NoCall
    /\ calls' = [calls EXCEPT ![NewAddr(p)] = WgAdd(NewCall(key[p], p))]
    /\ c' = [c EXCEPT ![p] = NewAddr(p)]
    /\ m' = MapSet(m, key[p], NewAddr(p))
    /\ mu' = p
    /\ pc' = [pc EXCEPT ![p] = "call"]
    /\ UNCHANGED <<key, ret, hist>>
    /\ UNCHANGED varsC

\* A registration that does not look the key up first.
DoRegisterOverwrites(p) ==
    /\ pc[p] = "start"
    /\ Lock(p)
    /\ calls' = [calls EXCEPT ![NewAddr(p)] = WgAdd(NewCall(key[p], p))]
    /\ c' = [c EXCEPT ![p] = NewAddr(p)]
    /\ m' = MapSet(m, key[p], NewAddr(p))
    /\ mu' = NoProc
    /\ pc' = [pc EXCEPT ![p] = "call"]
    /\ UNCHANGED <<key, ret, hist>>
    /\ UNCHANGED varsC

\* g.mu.Lock(); ...; c := new(call); c.wg.Add(1); g.m[key] = c; g.mu.Unlock()
DoRegister(p) ==
    /\ pc[p] = "start"
    /\ Lock(p)
    /\ m[key[p]] = NoCall
    /\ calls' = [calls EXCEPT ![NewAddr(p)] = WgAdd(NewCall(key[p], p))]
    /\ c' = [c EXCEPT ![p] = NewAddr(p)]
    /\ m' = MapSet(m, key[p], NewAddr(p))
    /\ mu' = NoProc
    /\ pc' = [pc EXCEPT ![p] = "call"]
    /\ hist' =
         IF p = obs
         THEN [hist EXCEPT !.during =
                 \E o \in Procs : pc[o] \in {"infn", "hung"} /\ key[o] # key[p]]
         ELSE IF pc[obs] = "start" /\ key[obs] = key[p] /\ hist.fresh
              THEN [hist EXCEPT !.mateRan = TRUE]
              ELSE hist
    /\ UNCHANGED <<key, ret>>
    /\ UNCHANGED varsC

\* fn() is invoked.
FnStart(p) ==
    /\ pc[p] = "call"
    /\ calls' = [calls EXCEPT ![c[p]].execs = @ + 1]
    /\ pc' = [pc EXCEPT ![p] = "infn"]
    /\ hist' = IF p = obs THEN [NoHist EXCEPT !.during = hist.during] ELSE hist
    /\ UNCHANGED <<mu, mNil, m, key, c, ret>>
    /\ UNCHANGED varsC

\* fn() returns r; c.val, c.err = r; c.wg.Done()
FnReturn(p, r) ==
    /\ pc[p] = "infn"
    /\ calls' = [calls EXCEPT ![c[p]] =
                   WgDone([StoreResult(@, r) EXCEPT !.produced = r])]
    /\ pc' = [pc EXCEPT ![p] = "signaled"]
    /\ UNCHANGED <<mu, mNil, m, key, c, ret, hist>>
    /\ UNCHANGED varsC

\* An abort of fn that still signals completion (a deferred c.wg.Done()).
FnHangReleases(p) ==
    /\ pc[p] = "infn"
    /\ calls' = [calls EXCEPT ![c[p]] = WgDone(@)]
    /\ pc' = [pc EXCEPT ![p] = "hung"]
    /\ UNCHANGED <<mu, mNil, m, key, c, ret, hist>>
    /\ UNCHANGED varsC

\* fn() never returns: it blocks forever, or it panics and the goroutine
\* unwinds out of Do, which has no deferred call.
FnHang(p) ==
    /\ pc[p] = "infn"
    /\ pc' = [pc EXCEPT ![p] = "hung"]
    /\ UNCHANGED <<mu, mNil, m, calls, key, c, ret, hist>>
    /\ UNCHANGED varsC

\* g.mu.Lock(); delete(g.m, key); g.mu.Unlock()
DoDelete(p) ==
    /\ pc[p] = "signaled"
    /\ mu = NoProc
    /\ m' = MapDelete(m, key[p])
    /\ calls' = [calls EXCEPT ![c[p]].removed = TRUE]
    /\ mu' = NoProc
    /\ pc' = [pc EXCEPT ![p] = "deleted"]
    /\ UNCHANGED <<mNil, key, c, ret, hist>>
    /\ UNCHANGED varsC

\* return c.val, c.err
DoReturn(p) ==
    /\ pc[p] = "deleted"
    /\ Return(p, ReadResult(calls[c[p]]))
    /\ UNCHANGED <<mu, mNil, m>>
    /\ UNCHANGED varsC

NextGroup ==
    \/ \E p \in Procs, k \in Keys : DoBegin(p, k)
    \/ \E p \in Procs : DoJoin(p)
    \/ \E p \in Procs : DoWaitReturn(p)
    \/ \E p \in Procs : DoRegister(p)
    \/ \E p \in Procs : FnStart(p)
    \/ \E p \in Procs, r \in FnResults : FnReturn(p, r)
    \/ \E p \in Procs : FnHang(p)
    \/ \E p \in Procs : DoDelete(p)
    \/ \E p \in Procs : DoReturn(p)

\* A step of goroutine p inside Do, fn's return included.
Step(p) ==
    \/ DoJoin(p)
    \/ DoWaitReturn(p)
    \/ DoRegister(p)
    \/ FnStart(p)
    \/ \E r \in FnResults : FnReturn(p, r)
    \/ DoDelete(p)
    \/ DoReturn(p)

\* The steps of a Group whose every fn returns.
NextLive ==
    \/ \E p \in Procs, k \in Keys : DoBegin(p, k)
    \/ \E p \in Procs : DoJoin(p)
    \/ \E p \in Procs : DoWaitReturn(p)
    \/ \E p \in Procs : DoRegister(p)
    \/ \E p \in Procs : FnStart(p)
    \/ \E p \in Procs, r \in FnResults : FnReturn(p, r)
    \/ \E p \in Procs : DoDelete(p)
    \/ \E p \in Procs : DoReturn(p)

\* The Go scheduler runs every goroutine that can run, sync.Mutex lets no
\* goroutine starve at Lock, and fn returns: a goroutine inside Do that can
\* take a step takes one.  Nothing makes a goroutine call Do.
Fairness == \A p \in Procs : WF_vars(Step(p))

-----------------------------------------------------------------------------
(***************************************************************************)
(* package lru.  A Cache is used by one caller at a time: each action is   *)
(* one whole call of a method.                                             *)
(***************************************************************************)
CacheKeys == 1..NumCacheKeys

\* Values are opaque to the Cache; nil is the zero value Get returns on a miss.
Values == {"x", "y"}
NilValue == "nil"

\* MaxEntries as given to New or set in a Cache literal; negative included.
Caps == (-1)..MaxCap

\* Addresses of list elements; NilElem is a nil *list.Element.
ElemIds == 1..(NumCacheKeys + 1)
NilElem == 0

\* The entry stored at an address that holds no element.
NoEntry == [key |-> 0, value |-> NilValue]

\* The fields of the Cache a method works on, with the callback calls it
\* has made so far.
Self ==
    [ll |-> ll, entry |-> entry, cache |-> cache, cacheNil |-> cacheNil,
     evicted |-> <<>>]

\* l.Len()
ListLen(l) == Len(l)

\* l.Back()
Back(l) == IF Len(l) = 0 THEN NilElem ELSE l[Len(l)]

\* l.Remove(e)
ListRemove(l, e) == SelectSeq(l, LAMBDA x : x # e)

\* l.PushFront(v), for the new element e
PushFront(l, e) == <<e>> \o l

\* A move that leaves the element where it is.
MoveToFrontStays(l, e) == l

\* l.MoveToFront(e)
MoveToFront(l, e) ==
    IF \E i \in 1..Len(l) : l[i] = e THEN <<e>> \o ListRemove(l, e) ELSE l

\* The element addresses in use: on the list or in the map.
LiveElems(st) ==
    {st.ll[i] : i \in 1..Len(st.ll)} \cup {st.cache[k] : k \in CacheKeys}

\* The address of a new element for key k: one not in use.
NewElem(st, k) ==
    IF k \notin LiveElems(st) THEN k
    ELSE CHOOSE e \in ElemIds : /\ e \notin LiveElems(st)
                                /\ \A o \in 1..(e - 1) : o \in LiveElems(st)

\* func (c *Cache) Len() int
CacheLen(st) == IF st.cacheNil THEN 0 ELSE ListLen(st.ll)

\* c.OnEvicted(kv.key, kv.value): the callback notes its arguments and what
\* it would see of the Cache: Len(), whether the key is still in c.cache or
\* on c.ll, and the size of c.cache.
Callback(st, kv) ==
    [key |-> kv.key, value |-> kv.value, len |-> CacheLen(st),
     hit |-> st.cache[kv.key] # NilElem,
     onList |-> \E i \in 1..Len(st.ll) : st.entry[st.ll[i]].key = kv.key,
     size |-> Cardinality({k \in CacheKeys : st.cache[k] # NilElem})]

\* A removal that leaves the key in the map.
removeElementKeepsKey(st, e) ==
    LET kv == st.entry[e]
        s1 == [st EXCEPT !.ll = ListRemove(@, e)]
    IN  IF OnEvicted THEN [s1 EXCEPT !.evicted = Append(@, Callback(s1, kv))]
        ELSE s1

\* A removal that never calls the callback.
removeElementSilent(st, e) ==
    LET s2 == [st EXCEPT !.ll = ListRemove(@, e),
                         !.cache[st.entry[e].key] = NilElem]
    IN  [s2 EXCEPT !.entry =
           [x \in ElemIds |-> IF x \in LiveElems(s2) THEN @[x] ELSE NoEntry]]

\* A removal that calls the callback before it removes the element.
removeElementCallbackFirst(st, e) ==
    LET kv == st.entry[e]
        s1 == IF OnEvicted
              THEN [st EXCEPT !.evicted = Append(@, Callback(st, kv))]
              ELSE st
        s2 == [s1 EXCEPT !.ll = ListRemove(@, e), !.cache[kv.key] = NilElem]
    IN  [s2 EXCEPT !.entry =
           [x \in ElemIds |-> IF x \in LiveElems(s2) THEN @[x] ELSE NoEntry]]

\* func (c *Cache) removeElement(e *list.Element)
removeElement(st, e) ==
    LET kv == st.entry[e]
        s1 == [st EXCEPT !.ll = ListRemove(@, e)]
        s2 == [s1 EXCEPT !.cache[kv.key] = NilElem]
        s3 == IF OnEvicted
              THEN [s2 EXCEPT !.evicted = Append(@, Callback(s2, kv))]
              ELSE s2
    IN  [s3 EXCEPT !.entry =
           [x \in ElemIds |-> IF x \in LiveElems(s3) THEN @[x] ELSE NoEntry]]

\* A removal of the most recently used element.
RemoveNewest(st) ==
    IF st.cacheNil THEN st
    ELSE IF Len(st.ll) = 0 THEN st ELSE removeElement(st, st.ll[1])

\* func (c *Cache) RemoveOldest()
RemoveOldest(st) ==
    IF st.cacheNil THEN st
    ELSE LET ele == Back(st.ll)
         IN  IF ele # NilElem THEN removeElement(st, ele) ELSE st

\* The eviction test of Add with an off-by-one.
OverCapacityLate(st) ==
    MaxEntries # 0 /\ ListLen(st.ll) > MaxEntries + 1

\* The eviction test of Add without the test for MaxEntries = 0.
OverCapacityZeroIsLimit(st) ==
    ListLen(st.ll) > MaxEntries

\* c.MaxEntries != 0 && c.ll.Len() > c.MaxEntries
OverCapacity(st) ==
    MaxEntries # 0 /\ ListLen(st.ll) > MaxEntries

\* An Add that evicts when it updates a present key of a full Cache.
AddUpdateEvicts(st, k, v) ==
    LET s0 == IF st.cacheNil
              THEN [st EXCEPT !.cacheNil = FALSE,
                              !.cache = [x \in CacheKeys |-> NilElem],
                              !.ll = <<>>]
              ELSE st
    IN  IF s0.cache[k] # NilElem
        THEN LET s1 == [s0 EXCEPT !.ll = MoveToFront(@, s0.cache[k]),
                                  !.entry[s0.cache[k]].value = v]
             IN  IF MaxEntries # 0 /\ ListLen(s1.ll) >= MaxEntries
                 THEN RemoveOldest(s1) ELSE s1
        ELSE LET s1 == [s0 EXCEPT !.ll = PushFront(@, NewElem(s0, k)),
                                  !.entry[NewElem(s0, k)] = [key |-> k, value |-> v],
                                  !.cache[k] = NewElem(s0, k)]
             IN  IF OverCapacity(s1) THEN RemoveOldest(s1) ELSE s1

\* func (c *Cache) Add(key Key, value interface{})
Add(st, k, v) ==
    LET s0 == IF st.cacheNil
              THEN [st EXCEPT !.cacheNil = FALSE,
                              !.cache = [x \in CacheKeys |-> NilElem],
                              !.ll = <<>>]
              ELSE st
    IN  IF s0.cache[k] # NilElem
        THEN LET ee == s0.cache[k]
             IN  [s0 EXCEPT !.ll = MoveToFront(@, ee),
                            !.entry[ee].value = v]
        ELSE LET ele == NewElem(s0, k)
                 s1 == [s0 EXCEPT !.ll = PushFront(@, ele),
                                  !.entry[ele] = [key |-> k, value |-> v],
                                  !.cache[k] = ele]
             IN  IF OverCapacity(s1) THEN RemoveOldest(s1) ELSE s1

\* A Get that returns the value of a present key and leaves the list alone.
GetDoesNotMove(st, k) ==
    IF ~st.cacheNil /\ st.cache[k] # NilElem
    THEN [st |-> st, value |-> st.entry[st.cache[k]].value, ok |-> TRUE]
    ELSE [st |-> st, value |-> NilValue, ok |-> FALSE]

\* func (c *Cache) Get(key Key) (value interface{}, ok bool): the Cache
\* after the call, and the two results.
Get(st, k) ==
    IF st.cacheNil THEN [st |-> st, value |-> NilValue, ok |-> FALSE]
    ELSE IF st.cache[k] # NilElem
         THEN LET ele == st.cache[k]
              IN  [st |-> [st EXCEPT !.ll = MoveToFront(@, ele)],
                   value |-> st.entry[ele].value, ok |-> TRUE]
         ELSE [st |-> st, value |-> NilValue, ok |-> FALSE]

\* A Remove that removes the oldest entry when its key is not present.
RemoveMissTakesOldest(st, k) ==
    IF st.cacheNil THEN st
    ELSE IF st.cache[k] # NilElem THEN removeElement(st, st.cache[k])
         ELSE RemoveOldest(st)

\* func (c *Cache) Remove(key Key)
Remove(st, k) ==
    IF st.cacheNil THEN st
    ELSE IF st.cache[k] # NilElem THEN removeElement(st, st.cache[k]) ELSE st

\* The keys of a sequence of keys, k moved or put first.
Touch(seq, k) == <<k>> \o SelectSeq(seq, LAMBDA x : x # k)

\* The keys on the list, front first.
ListKeys(st) == [i \in 1..Len(st.ll) |-> st.entry[st.ll[i]].key]

\* The keys a lookup in c.cache finds.
Present(st) == IF st.cacheNil THEN {} ELSE {k \in CacheKeys : st.cache[k] # NilElem}

\* The entries of the Cache: the value stored for each key present.
Stored(st) == [k \in Present(st) |-> st.entry[st.cache[k]].value]

\* The Cache after a method call: its fields, the callback calls the method
\* made, the call itself with Len() as it was before it and whether it
\* repeats the method and key of the call before it, the order of
\* latest access, in which key k moves first when the call accessed it and
\* a key no longer present is dropped, and the values given by Add.
Install(st, call, accessed) ==
    /\ ll' = st.ll
    /\ entry' = st.entry
    /\ cache' = st.cache
    /\ cacheNil' = st.cacheNil
    /\ evicted' = st.evicted
    /\ last' = [op |-> call.op, key |-> call.key, value |-> call.value,
                ok |-> call.ok, before |-> CacheLen(Self),
                again |-> (last.op = call.op /\ last.key = call.key)]
    /\ lastAdded' = [k \in CacheKeys |->
                       IF k \notin Present(st) THEN NilValue
                       ELSE IF call.op = "Add" /\ call.key = k THEN call.value
                       ELSE lastAdded[k]]
    /\ lastAccess' = SelectSeq(IF accessed THEN Touch(lastAccess, call.key)
                               ELSE lastAccess,
                               LAMBDA x : x \in Present(st))
    /\ UNCHANGED <<MaxEntries, OnEvicted>>
    /\ UNCHANGED varsG

NoCallYet == [op |-> "New", key |-> 0, value |-> NilValue, ok |-> FALSE,
              before |-> 0, again |-> FALSE]

\* func New(maxEntries int) *Cache, or a Cache literal whose ll and cache
\* are nil; with or without an OnEvicted callback.
InitCache ==
    /\ MaxEntries \in Caps
    /\ OnEvicted \in BOOLEAN
    /\ cacheNil \in BOOLEAN
    /\ ll = <<>>
    /\ entry = [x \in ElemIds |-> NoEntry]
    /\ cache = [k \in CacheKeys |-> NilElem]
    /\ evicted = <<>>
    /\ last = NoCallYet
    /\ lastAccess = <<>>
    /\ lastAdded = [k \in CacheKeys |-> NilValue]

\* A Group nobody has called yet beside a Cache New(0) nobody uses.
InitG ==
    /\ InitGroup
    /\ InitCache
    /\ MaxEntries = 0 /\ ~OnEvicted /\ ~cacheNil

\* A Cache nobody has used yet beside a Group nobody calls.
InitC ==
    /\ InitCache
    /\ InitGroup

\* c.Add(k, v)
CallAdd(k, v) ==
    Install(Add(Self, k, v),
            [op |-> "Add", key |-> k, value |-> v, ok |-> FALSE], TRUE)

\* value, ok := c.Get(k)
CallGet(k) ==
    LET r == Get(Self, k)
    IN  Install(r.st, [op |-> "Get", key |-> k, value |-> r.value, ok |-> r.ok],
                r.ok)

\* c.Remove(k)
CallRemove(k) ==
    Install(Remove(Self, k),
            [op |-> "Remove", key |-> k, value |-> NilValue, ok |-> FALSE], FALSE)

\* c.RemoveOldest()
CallRemoveOldest ==
    Install(RemoveOldest(Self),
            [op |-> "RemoveOldest", key |-> 0, value |-> NilValue, ok |-> FALSE],
            FALSE)

NextCache ==
    \/ \E k \in CacheKeys, v \in Values : CallAdd(k, v)
    \/ \E k \in CacheKeys : CallGet(k)
    \/ \E k \in CacheKeys : CallRemove(k)
    \/ CallRemoveOldest

-----------------------------------------------------------------------------
\* The Group used by its goroutines, beside a Cache nobody touches.
SpecGroup == InitG /\ [][NextGroup]_vars

\* The Cache used by its caller, beside a Group nobody calls.
SpecCache == InitC /\ [][NextCache]_vars

\* The Group used by goroutines whose fn always returns, fairly scheduled.
SpecLive == InitG /\ [][NextLive]_vars /\ Fairness

-----------------------------------------------------------------------------
(***************************************************************************)
(* Properties of Group.Do.                                                 *)
(***************************************************************************)

\* The step is a return of Do to goroutine p.
Returns(p) == pc[p] # "idle" /\ pc'[p] = "idle"

\* Positions of Do at which fn is running, or was abandoned running.
InFn == {"infn", "hung"}

C2_OneExecutionPerKey ==
    /\ \A p, q \in Procs :
         (p # q /\ pc[p] \in InFn /\ pc[q] \in InFn) => key[p] # key[q]
    /\ \A p \in Procs :
         pc[p] \in {"call", "infn", "hung", "signaled", "deleted"}
            => calls[c[p]].owner = p
    /\ \A p \in Procs : pc[p] = "wait" => calls[c[p]].owner # p
    /\ \A id \in CallIds : calls[id].execs <= 1

\* fn is running for a key while another caller of that key waits on it.
C2_Witness ==
    \E p, q \in Procs : pc[p] = "infn" /\ pc[q] = "wait" /\ c[q] = c[p]

\* C3: every return of Do yields exactly the pair that the fn execution of
\* the caller's record produced; hence no caller returns before fn has
\* produced it.
C3_ReturnsProduced ==
    [][Returns(obs) => ret' = calls[c[obs]].produced]_vars

\* A duplicate caller has returned the error of an execution whose own
\* caller has not returned yet.
C3_Witness ==
    /\ pc[obs] = "signaled"
    /\ calls[c[obs]].produced = <<"nil", "e1">>
    /\ hist.mateRet = {<<"nil", "e1">>}

C5_SequentialCallsExecute ==
    hist.alone =>
        /\ pc[obs] # "wait"
        /\ pc[obs] = "start" => m[key[obs]] = NoCall
        /\ pc[obs] = "call" => /\ calls[c[obs]].owner = obs
                               /\ calls[c[obs]].execs = 0
                               /\ calls[c[obs]].produced = NotYet

\* The second of two sequential calls of a goroutine for one key is about
\* to invoke fn, while fn runs for another key.
C5_Witness ==
    \E q \in Procs :
        /\ pc[obs] = "call" /\ hist.alone /\ hist.second
        /\ pc[q] = "infn" /\ key[q] # key[obs]

\* C6: every critical section of Do has unlocked g.mu when it ends, so g.mu
\* is never held while fn runs or hangs or while a caller waits; and a
\* caller waits only on a record of its own key.
C6_LockNotHeldInFn ==
    /\ mu = NoProc
    /\ \A p \in Procs : pc[p] = "wait" => calls[c[p]].key = key[p]

\* fn never returned for one key, and a call for another key, registered
\* while that fn was running, has executed its fn and removed its record.
C6_Witness ==
    \E p \in Procs :
        /\ pc[p] = "hung" /\ pc[obs] = "deleted"
        /\ key[obs] # key[p] /\ hist.during

\* C7: once fn has failed to return for a record, the record stays in g.m,
\* its barrier is never released, every caller waiting on it keeps waiting,
\* and every caller that looks the key up joins it.
C7_HangBlocksForever ==
    /\ [](\A p \in Procs :
            pc[p] = "hung" => /\ m[key[p]] = c[p]
                              /\ ~WgReleased(calls[c[p]])
                              /\ ~calls[c[p]].removed)
    /\ [][\A p \in Procs :
            pc[p] = "hung" =>
              /\ pc'[p] = "hung" /\ c'[p] = c[p] /\ key'[p] = key[p]
              /\ \A q \in Procs :
                   /\ (pc[q] = "wait" /\ c[q] = c[p])
                        => (pc'[q] = "wait" /\ c'[q] = c[p])
                   /\ (pc[q] = "start" /\ key[q] = key[p] /\ pc'[q] # "start")
                        => (pc'[q] = "wait" /\ c'[q] = c[p])]_vars

\* fn never returned for a record on which another caller waits.
C7_Witness ==
    \E p, q \in Procs : pc[p] = "hung" /\ pc[q] = "wait" /\ c[q] = c[p]

\* C16 (as stated): the record of a completed call is deleted from g.m
\* before its barrier is released: no caller waits on a record whose barrier
\* is released while the record is still in g.m.
C16_DeletedBeforeRelease ==
    \A q \in Procs :
        (pc[q] = "wait" /\ WgReleased(calls[c[q]])) => m[key[q]] # c[q]

\* C16 (amended): the executing caller releases the barrier when fn has
\* returned, with the record still in g.m; it deletes the record only after
\* that, and before it returns.
C16_ReleasedBeforeDelete ==
    /\ [](\A p \in Procs :
            pc[p] = "signaled" => /\ calls[c[p]].produced # NotYet
                                  /\ WgReleased(calls[c[p]])
                                  /\ m[key[p]] = c[p]
                                  /\ ~calls[c[p]].removed)
    /\ [](\A id \in CallIds :
            calls[id].removed => /\ calls[id].produced # NotYet
                                 /\ WgReleased(calls[id]))
    /\ [][\A p \in Procs :
            (Returns(p) /\ calls[c[p]].owner = p) =>
                (calls[c[p]].removed /\ m[key[p]] # c[p])]_vars

\* A duplicate caller was released and has returned while the record, whose
\* fn has returned, is still in g.m.
C16_Witness ==
    /\ pc[obs] = "signaled" /\ m[key[obs]] = c[obs]
    /\ hist.mateRet # {}

\* C17: the barrier of a call record is signaled once: its counter is 1
\* from the registration until fn has returned and 0 from then on.  When
\* every fn returns and the goroutines are scheduled fairly, every call of
\* Do returns, a duplicate that starts to wait after the signal included,
\* and whenever a goroutine is inside Do some goroutine can take a step.
C17_EveryCallReturns ==
    /\ [](\A id \in CallIds :
            calls[id].owner # NoProc =>
                calls[id].wg = IF calls[id].produced = NotYet THEN 1 ELSE 0)
    /\ [][\A id \in CallIds :
            (calls[id].owner # NoProc /\ calls'[id].owner # NoProc) =>
                calls'[id].wg <= calls[id].wg]_vars
    /\ []((\E p \in Procs : Active(p)) => \E p \in Procs : ENABLED Step(p))
    /\ \A p \in Procs : Active(p) ~> ~Active(p)

\* A duplicate caller waits on a record whose fn had returned, and whose
\* barrier had been signaled, before the caller entered Do.
C17_Witness ==
    /\ pc[obs] = "wait" /\ c[obs] \in hist.fnDone
    /\ WgReleased(calls[c[obs]])

\* Positions of Do between the registration of a record and its delete.
Registered == {"call", "infn", "hung", "signaled"}

\* C18: from a caller's registration of a record to its delete, g.m holds
\* that record under the caller's key: no other caller replaces or removes
\* it, and the delete removes that record and no other.
C18_DeletesOwnRecord ==
    /\ [](\A p \in Procs :
            pc[p] \in Registered => /\ m[key[p]] = c[p]
                                    /\ calls[c[p]].owner = p
                                    /\ calls[c[p]].key = key[p])
    /\ [][\A p \in Procs :
            (pc[p] = "signaled" /\ pc'[p] = "deleted") =>
                /\ m[key[p]] = c[p]
                /\ m'[key[p]] = NoCall
                /\ \A k \in Keys \ {key[p]} : m'[k] = m[k]
                /\ \A q \in Procs \ {p} :
                     pc[q] \in Registered => m'[key[q]] = c[q]]_vars

\* A caller has deleted its record and has not returned yet, while a later
\* execution for the same key is running with its own record in g.m.
C18_Witness ==
    \E p, q \in Procs :
        /\ pc[p] = "deleted" /\ pc[q] = "infn"
        /\ key[q] = key[p] /\ c[q] # c[p] /\ m[key[q]] = c[q]

-----------------------------------------------------------------------------
(***************************************************************************)
(* Properties of lru.Cache.                                                *)
(***************************************************************************)

\* The keys that were present before the step, or were added by it, and are
\* not present after it.
Leaving ==
    (Present(Self) \cup (IF last'.op = "Add" THEN {last'.key} ELSE {}))
        \ Present(Self')

\* C8: the map and the list agree: every key of the map refers to an element
\* that is on the list and holds an entry of that key, every element of the
\* list is referred to by exactly one key, no element and no key is on the
\* list twice, and Len() is the length of the list and the size of the map.
C8_MapListConsistent ==
    /\ \A k \in CacheKeys :
         cache[k] # NilElem =>
           /\ Cardinality({i \in 1..Len(ll) : ll[i] = cache[k]}) = 1
           /\ entry[cache[k]].key = k
    /\ \A i \in 1..Len(ll) :
         Cardinality({k \in CacheKeys : cache[k] = ll[i]}) = 1
    /\ \A i, j \in 1..Len(ll) :
         i # j => (ll[i] # ll[j] /\ entry[ll[i]].key # entry[ll[j]].key)
    /\ CacheLen(Self) = Len(ll)
    /\ CacheLen(Self) = Cardinality(Present(Self))

\* A Remove has taken one of three entries out of the Cache.
C8_Witness ==
    /\ last.op = "Remove" /\ Len(ll) = 2
    /\ cache[last.key] = NilElem
    /\ \E k \in CacheKeys : cache[k] # NilElem /\ ll[2] = cache[k]

\* C9: with MaxEntries > 0, Len() never exceeds MaxEntries; an Add of a key
\* not present that makes the count exceed MaxEntries evicts exactly one
\* entry, and any other Add evicts none.
C9_NeverOverCapacity ==
    /\ [](MaxEntries > 0 => CacheLen(Self) <= MaxEntries)
    /\ [][(MaxEntries > 0 /\ last'.op = "Add") =>
            Cardinality(Leaving) =
              IF /\ last'.key \notin Present(Self)
                 /\ CacheLen(Self) + 1 > MaxEntries
              THEN 1 ELSE 0]_vars

\* An Add to a full Cache of two entries has evicted one entry.
C9_Witness ==
    /\ MaxEntries = 2 /\ last.op = "Add"
    /\ Len(evicted) = 1 /\ CacheLen(Self) = 2

\* C10: the list holds the keys present in the order of their latest Add or
\* successful Get, latest first, and the entry that a RemoveOldest or an Add
\* takes out is the one accessed longest ago, the access of that Add
\* counted.
C10_EvictsLeastRecentlyUsed ==
    /\ [](ListKeys(Self) = lastAccess)
    /\ [][last'.op \in {"Add", "RemoveOldest"} =>
            LET order == IF last'.op = "Add" THEN Touch(lastAccess, last'.key)
                         ELSE lastAccess
            IN  \A k \in Leaving : k = order[Len(order)]]_vars

\* With MaxEntries = 2: after keys 1 and 2 were added and 1 was accessed
\* again, the Add of key 3 has evicted key 2.
C10_Witness ==
    /\ MaxEntries = 2 /\ last.op = "Add" /\ last.key = 3
    /\ ListKeys(Self) = <<3, 1>>
    /\ Len(evicted) = 1 /\ evicted[1].key = 2

\* C11: an Add of a key already present stores the new value for it, moves
\* it to the front of the list, leaves the other entries, their order and
\* Len() as they were and calls no eviction callback, at capacity too.
C11_AddPresentUpdatesInPlace ==
    [][(last'.op = "Add" /\ last'.key \in Present(Self)) =>
         /\ Stored(Self') = [Stored(Self) EXCEPT ![last'.key] = last'.value]
         /\ ListKeys(Self') = Touch(ListKeys(Self), last'.key)
         /\ CacheLen(Self') = CacheLen(Self)
         /\ evicted' = <<>>]_vars

\* With a callback set and MaxEntries = 2, an Add to a Cache of two entries
\* has left two entries and called no callback: it updated the entry that
\* was least recently used.
C11_Witness ==
    /\ MaxEntries = 2 /\ OnEvicted /\ last.op = "Add"
    /\ last.before = 2 /\ CacheLen(Self) = 2 /\ evicted = <<>>
    /\ ListKeys(Self)[1] = last.key
    /\ Stored(Self)[last.key] = "y" /\ \E k \in Present(Self) : Stored(Self)[k] = "x"

\* C12: Get(k) reports a hit exactly when k is present; on a hit it returns
\* the value the latest Add of k gave and moves k to the front of the list,
\* the entries being the same; on a miss it returns the zero value and
\* leaves the list, the map and Len() as they were.
C12_GetReturnsLatestAdded ==
    [][last'.op = "Get" =>
         /\ last'.ok = (last'.key \in Present(Self))
         /\ last'.ok =>
              /\ last'.value = lastAdded[last'.key]
              /\ last'.value \in Values
              /\ ListKeys(Self') = Touch(ListKeys(Self), last'.key)
              /\ Stored(Self') = Stored(Self)
         /\ ~last'.ok =>
              /\ last'.value = NilValue
              /\ ll' = ll /\ cache' = cache /\ entry' = entry
              /\ cacheNil' = cacheNil
              /\ CacheLen(Self') = CacheLen(Self)]_vars

\* A Get has hit on one of three entries, returned the value "y" that the
\* latest Add of its key gave, and that key is now first on the list.
C12_Witness ==
    /\ last.op = "Get" /\ last.ok /\ last.value = "y"
    /\ lastAdded[last.key] = "y"
    /\ Len(ll) = 3 /\ ListKeys(Self)[1] = last.key

\* C13: with a callback set, a method call calls it once for each entry that
\* leaves the Cache in that call, with the entry's key and the value it
\* held, and calls it for nothing else: not for an update by Add, not for a
\* Get, not for a Remove or RemoveOldest that found nothing.  Without a
\* callback nothing is called.
C13_CallbackOncePerRemoval ==
    [][/\ ~OnEvicted => evicted' = <<>>
       /\ OnEvicted =>
            /\ Len(evicted') = Cardinality(Leaving)
            /\ \A k \in Leaving :
                 \E i \in 1..Len(evicted') :
                    /\ evicted'[i].key = k
                    /\ evicted'[i].value =
                         IF k \in Present(Self) THEN Stored(Self)[k]
                         ELSE last'.value
            /\ last'.op = "Get" => evicted' = <<>>
            /\ (last'.op = "Add" /\ last'.key \in Present(Self)) =>
                  evicted' = <<>>
            /\ (/\ last'.op \in {"Remove", "RemoveOldest"}
                /\ Present(Self') = Present(Self)) => evicted' = <<>>]_vars

\* With a callback set, a Remove has taken the entry of its key, holding
\* "y", out of a Cache of three entries and the callback was called once,
\* with that key and "y".
C13_Witness ==
    /\ OnEvicted /\ last.op = "Remove" /\ last.before = 3
    /\ CacheLen(Self) = 2
    /\ Len(evicted) = 1 /\ evicted[1].key = last.key /\ evicted[1].value = "y"

\* The step leaves the list, the map, the entries and Len() as they were and
\* calls no callback.
NoEffect ==
    /\ ll' = ll /\ cache' = cache /\ entry' = entry /\ cacheNil' = cacheNil
    /\ ListKeys(Self') = ListKeys(Self)
    /\ CacheLen(Self') = CacheLen(Self)
    /\ evicted' = <<>>

\* C14: a Remove of a key that is not present and a RemoveOldest on an empty
\* Cache have no effect and call no callback; so a Remove that follows a
\* Remove of the same key has none.
C14_AbsentRemoveIsNoOp ==
    [][/\ (last'.op = "Remove" /\ last'.key \notin Present(Self)) => NoEffect
       /\ (last'.op = "RemoveOldest" /\ CacheLen(Self) = 0) => NoEffect
       /\ (last'.op = "Remove" /\ last'.again) => NoEffect]_vars

\* With a callback set, a Remove that follows a Remove of the same key has
\* left a Cache of two entries with two entries and called no callback.
C14_Witness ==
    /\ OnEvicted /\ last.op = "Remove" /\ last.again
    /\ last.before = 2 /\ CacheLen(Self) = 2 /\ evicted = <<>>

\* C15: with MaxEntries = 0 no Add evicts: an Add makes its key present and
\* takes none out, a Get changes no key, only Remove and RemoveOldest take
\* an entry out, at most the one they name, and only they call the
\* callback; so Len() is the number of keys added and not removed since.
C15_ZeroCapacityNeverEvicts ==
    /\ [](MaxEntries = 0 => CacheLen(Self) = Cardinality(Present(Self)))
    /\ [][MaxEntries = 0 =>
            /\ last'.op = "Add" =>
                 /\ Present(Self') = Present(Self) \cup {last'.key}
                 /\ evicted' = <<>>
            /\ last'.op = "Get" =>
                 /\ Present(Self') = Present(Self)
                 /\ evicted' = <<>>
            /\ last'.op = "Remove" =>
                 Present(Self') = Present(Self) \ {last'.key}
            /\ last'.op = "RemoveOldest" =>
                 Present(Self') =
                   Present(Self) \ {ListKeys(Self)[i] : i \in {Len(ll)} \ {0}}]_vars

\* With MaxEntries = 0 and a callback set, an Add has brought the Cache
\* from two entries to three, more than MaxCap, and called no callback.
C15_Witness ==
    /\ MaxEntries = 0 /\ OnEvicted /\ last.op = "Add"
    /\ last.before = 2 /\ CacheLen(Self) = 3 /\ evicted = <<>>

\* C19: with MaxEntries = 0 or MaxEntries >= 1, the key of an Add is not
\* among the entries that Add takes out: after Add(k, v), k is present and
\* first on the list, and a Get(k) would hit and return v.
C19_AddedKeyNotEvicted ==
    /\ []((MaxEntries >= 0 /\ last.op = "Add") =>
            /\ last.key \in Present(Self)
            /\ ListKeys(Self)[1] = last.key
            /\ Get(Self, last.key).ok
            /\ Get(Self, last.key).value = last.value
            /\ \A i \in 1..Len(evicted) : evicted[i].key # last.key)
    /\ [][(MaxEntries >= 0 /\ last'.op = "Add") => last'.key \notin Leaving]_vars

\* With MaxEntries = 1 and a callback set, an Add to a Cache of one entry
\* has evicted the other key and its own key is the one entry.
C19_Witness ==
    /\ MaxEntries = 1 /\ OnEvicted /\ last.op = "Add" /\ last.before = 1
    /\ ListKeys(Self) = <<last.key>>
    /\ Len(evicted) = 1 /\ evicted[1].key # last.key

\* C20: when the callback is called for an entry, the entry is already off
\* the list and out of the map, and the list and the map agree: the
\* callback would miss on the key, and the Len() it would see is the size
\* of the map and one less than the count the removal found, which for an
\* Add includes the entry just added.
C20_CallbackSeesEntryRemoved ==
    \A i \in 1..Len(evicted) :
        /\ ~evicted[i].hit
        /\ ~evicted[i].onList
        /\ evicted[i].len = evicted[i].size
        /\ evicted[i].len = (IF last.op = "Add" THEN last.before + 1
                              ELSE last.before) - 1

\* The callback of a RemoveOldest on a Cache of three entries saw Len() = 2
\* and a miss on the key it was called for.
C20_Witness ==
    /\ last.op = "RemoveOldest" /\ last.before = 3
    /\ Len(evicted) = 1 /\ evicted[1].len = 2 /\ ~evicted[1].hit

=============================================================================
